---------------------------- MODULE Spec2Model ----------------------------
(***************************************************************************)
(* Model of the string-level merge of transifex.happix.models:             *)
(* Resource.merge_stringset and Resource.merge_translation_file, together  *)
(* with the two tables they write (SourceEntity, Translation), the unique  *)
(* constraints of their Meta classes and the manual transaction that       *)
(* wraps the merge.                                                        *)
(*                                                                         *)
(* The database is a pair of committed tables plus, for every caller, the  *)
(* rows its open transaction has inserted and not yet committed.  A query  *)
(* sees the committed rows and the caller's own pending rows (READ         *)
(* COMMITTED).  An INSERT whose unique key is held by a pending row of     *)
(* another transaction waits for that transaction to end.                  *)
(***************************************************************************)
EXTENDS Integers, Sequences, FiniteSets, TLC

\* ------------------------------------------------------------------ bounds
\* Longest stringset a caller hands to merge_stringset.
MaxLen == 2

\* ----------------------------------------------------------- input domains
Procs == {"p1", "p2"}
Resources == {"r1", "r2"}
Languages == {"fr", "de"}
Strings == {"Hello"}
Contexts == {"", "None", "menu"}
Numbers == {0}
Texts == {"Bonjour", "Salut"}
NoUser == "None"

\* One parsed entry j of stringset.strings.
Entries == [source_entity : Strings, context : Contexts,
            number : Numbers, translation : Texts]

SeqsUpTo(S, n) == UNION {[1..k -> S] : k \in 0..n}

Stringsets == SeqsUpTo(Entries, MaxLen)

VARIABLES
    seRows,          \* committed SourceEntity rows
    trRows,          \* committed Translation rows
    txnSe,           \* per caller: SourceEntity rows inserted, not committed
    txnTr,           \* per caller: Translation rows inserted, not committed
    pc,              \* per caller: position in merge_stringset
    call,            \* per caller: arguments of the current / last call
    idx,             \* per caller: entries of stringset.strings completed
    se,              \* per caller: id of local se
    tr,              \* per caller: id of local tr
    created,         \* per caller: local created
    strings_added,   \* per caller: local strings_added
    strings_updated, \* per caller: local strings_updated
    ret,             \* per caller: what the last call handed to its caller
    outcome,         \* per caller: how the last call ended its transaction
    pre,             \* history: the committed tables when the call began
    faultAt,         \* history: entries completed when an outside fault
                     \*          hit the call, -1 when none did
    rel,             \* history: relation of this call's input to the previous
    parse,           \* history: how the stringset of this call was obtained
    lastCommit,      \* history: the caller whose commit is the latest
    at,              \* set_stats: position in IntltoolHandler.set_stats
    stats,           \* set_stats: statistics stored for the component
    isIntltooled,    \* set_stats: local isIntltooled
    isMsgmerged,     \* set_stats: local isMsgmerged
    langs,           \* set_stats: the list get_langs returned
    visited,         \* set_stats: languages the for loop has been through
    workdir,         \* set_stats: state of the checkout's working directory
    calls            \* history: the calls set_stats has made in this run

vars == <<seRows, trRows, txnSe, txnTr, pc, call, idx, se, tr, created,
          strings_added, strings_updated, ret, outcome, pre, faultAt, rel,
          parse, lastCommit, at, stats, isIntltooled, isMsgmerged, langs,
          visited, workdir, calls>>

locals == <<se, tr, created, strings_added, strings_updated>>
tables == <<seRows, trRows>>
pending == <<txnSe, txnTr>>
history == <<pre, faultAt, rel, parse, lastCommit>>
handler == <<at, stats, isIntltooled, isMsgmerged, langs, visited, workdir,
             calls>>
merge == <<tables, pending, pc, call, idx, locals, ret, outcome, history>>

\* --------------------------------------------------------------- helpers
\* j.context, stored as the stringset spells it.
NormContextAsSpelled(c) == c

\* j.context or "None"
NormContext(c) == IF c = "" THEN "None" ELSE c

\* The key merge_stringset looks an entry up by, and the key as the
\* stringset spells it.
EntryKey(e) == <<e.source_entity, NormContext(e.context), e.number>>
RawKey(e) == <<e.source_entity, e.context, e.number>>

AllSe == seRows \cup UNION {txnSe[q] : q \in Procs}
AllTr == trRows \cup UNION {txnTr[q] : q \in Procs}

\* SourceEntity.Meta.unique_together
SeUniqueKey(s) == <<s.string, s.context, s.resource, s.number>>

\* Translation.Meta.unique_together
TrUniqueKey(t) == <<t.source_entity, t.string, t.language, t.resource, t.number>>

\* Primary keys.  A key is an opaque handle; the one a new row gets is
\* written <<unique key, n>> with the least n that no row of the table,
\* committed or pending, carries yet.
NoId == <<>>

FreshId(ids, key) ==
    <<key, CHOOSE n \in 1..(Cardinality(ids) + 1) :
               /\ <<key, n>> \notin ids
               /\ \A m \in 1..(n - 1) : <<key, m>> \in ids>>

\* Rows a query of caller p sees.
SeVisible(p) == seRows \cup txnSe[p]
TrVisible(p) == trRows \cup txnTr[p]

\* The entry the loop of caller p is at.
CurEntry(p) == call[p].stringset[idx[p] + 1]

\* SourceEntity.objects.get(string=, context=, number=): the lookup without
\* the resource among its arguments.
SeLookupAnyResource(p) ==
    LET j == CurEntry(p) IN
    {s \in SeVisible(p) : /\ s.string = j.source_entity
                          /\ s.context = NormContext(j.context)
                          /\ s.number = j.number}

\* SourceEntity.objects.get(string=, context=, resource=, number=)
SeLookup(p) ==
    LET j == CurEntry(p) IN
    {s \in SeVisible(p) : /\ s.string = j.source_entity
                          /\ s.context = NormContext(j.context)
                          /\ s.resource = call[p].resource
                          /\ s.number = j.number}

\* Translation.objects.get(source_entity=, language=, resource=, number=)
TrLookupAnyEntity(p) ==
    LET j == CurEntry(p) IN
    {t \in TrVisible(p) : /\ t.language = call[p].language
                          /\ t.resource = call[p].resource
                          /\ t.number = j.number}

\* Translation.objects.get(source_entity=, string=, language=, resource=,
\* number=): the lookup with the text among its arguments.
TrLookupWithText(p) ==
    LET j == CurEntry(p) IN
    {t \in TrVisible(p) : /\ t.source_entity = se[p]
                          /\ t.string = j.translation
                          /\ t.language = call[p].language
                          /\ t.resource = call[p].resource
                          /\ t.number = j.number}

TrLookup(p) ==
    LET j == CurEntry(p) IN
    {t \in TrVisible(p) : /\ t.source_entity = se[p]
                          /\ t.language = call[p].language
                          /\ t.resource = call[p].resource
                          /\ t.number = j.number}

\* The row get_or_create builds from the lookup arguments and defaults.
NewSeRow(p) ==
    LET j == CurEntry(p)
        row == [id |-> NoId, string |-> j.source_entity,
                context |-> NormContext(j.context),
                resource |-> call[p].resource,
                number |-> j.number, position |-> 1]
    IN [row EXCEPT !.id = FreshId({s.id : s \in AllSe}, SeUniqueKey(row))]

NewTrRow(p) ==
    LET j == CurEntry(p)
        row == [id |-> NoId, source_entity |-> se[p],
                language |-> call[p].language,
                resource |-> call[p].resource, number |-> j.number,
                string |-> j.translation, user |-> call[p].user]
    IN [row EXCEPT !.id = FreshId({t.id : t \in AllTr}, TrUniqueKey(row))]


\* ------------------------------------------------- database rules in use
\* A row with the unique key of `row` is already among `rows`
\* (SourceEntity: unique_together string, context, resource, number).
SeKeyTakenNoConstraint(rows, row) == FALSE

SeKeyTaken(rows, row) == \E s \in rows : SeUniqueKey(s) = SeUniqueKey(row)

\* (Translation: unique_together source_entity, string, language, resource,
\* number.)
TrKeyTaken(rows, row) == \E t \in rows : TrUniqueKey(t) = TrUniqueKey(row)

\* Callers whose open transaction holds the key the INSERT of p needs.
SeBlockers(p) == {q \in Procs \ {p} : SeKeyTaken(txnSe[q], NewSeRow(p))}
TrBlockers(p) == {q \in Procs \ {p} : TrKeyTaken(txnTr[q], NewTrRow(p))}

Blockers(p) ==
    IF pc[p] = "se_create" /\ ~SeKeyTaken(SeVisible(p), NewSeRow(p))
        THEN SeBlockers(p)
    ELSE IF pc[p] = "tr_create" /\ ~TrKeyTaken(TrVisible(p), NewTrRow(p))
        THEN TrBlockers(p)
    ELSE {}

\* transaction.rollback(): the table as it is after p's pending rows are
\* dropped.
RolledBackLeaks(committed, mine) == committed \cup mine

RolledBack(committed, mine) == committed

\* transaction.commit() that keeps only the rows of the committing call.
CommittedOnlyNew(committed, mine) == mine

\* transaction.commit()
Committed(committed, mine) == committed \cup mine

\* --------------------------------------------------- merge_stringset body
\* Where the loop goes once the entry at idx[p] is finished.
AfterEntry(p) ==
    IF idx[p] + 1 < Len(call[p].stringset) THEN "se_get" ELSE "else"

\* if created: strings_added += 1
CountAddedAlways(c, n) == n + 1

\* strings_added counts the SourceEntity and the Translation of a new entry.
CountAddedPerRow(c, n) == IF c THEN n + 2 ELSE n

\* if not created: strings_added += 1
CountAddedOnFound(c, n) == IF c THEN n ELSE n + 1

CountAdded(c, n) == IF c THEN n + 1 ELSE n

\* if not created and overwrite_translations:
EntersUpdateAlways(c, overwrite) == ~c

EntersUpdate(c, overwrite) == ~c /\ overwrite

\* Lines 285-288 once the second get_or_create returned (tid, c).
TrResolved(p, tid, c) ==
    /\ tr' = [tr EXCEPT ![p] = tid]
    /\ created' = [created EXCEPT ![p] = c]
    /\ strings_added' = [strings_added EXCEPT ![p] = CountAdded(c, @)]
    /\ IF EntersUpdate(c, call[p].overwrite)
         THEN /\ pc' = [pc EXCEPT ![p] = "l289"]
              /\ idx' = idx
         ELSE /\ pc' = [pc EXCEPT ![p] = AfterEntry(p)]
              /\ idx' = [idx EXCEPT ![p] = @ + 1]

\* An exception leaves the try body for the bare except clause.
Raise(p) == pc' = [pc EXCEPT ![p] = "except"]

\* Relation of a new call's input to the input of the call p just finished.
ChangedOne(old, new) ==
    /\ Len(old) = Len(new)
    /\ \E i \in 1..Len(new) :
          /\ old[i].translation # new[i].translation
          /\ [old[i] EXCEPT !.translation = new[i].translation] = new[i]
          /\ \A k \in 1..Len(new) : k # i => old[k] = new[k]

NoFault == 0 - 1

\* "again": the call p just finished merged the same stringset into the
\* same resource and language with overwrite_translations false, and
\* committed.  "changed": it committed a stringset that differs from the
\* new one in the translation of one entry.  "none": anything else.
Relation(p, r, lang, ss) ==
    IF pc[p] = "done" /\ call[p].resource = r /\ call[p].language = lang
       /\ call[p].has_strings /\ outcome[p] = "commit"
    THEN IF call[p].stringset = ss /\ ~call[p].overwrite THEN "again"
         ELSE IF ChangedOne(call[p].stringset, ss) THEN "changed"
         ELSE "none"
    ELSE "none"

NoRet == [added |-> 0, updated |-> 0, error |-> FALSE]

NoTables == [se |-> {}, tr |-> {}]

InitCall == [resource |-> "r1", language |-> "fr", stringset |-> <<>>,
             has_strings |-> TRUE, user |-> NoUser, overwrite |-> TRUE]

\* Entry into merge_stringset (lines 258-263): the transaction is opened,
\* the counters are zeroed and the loop is entered.  has_strings is false
\* when the object handed in is no stringset (None); how records where the
\* stringset came from.
Enter(p, r, lang, ss, has_strings, user, ow, how) ==
    /\ call' = [call EXCEPT ![p] = [resource |-> r, language |-> lang,
                                    stringset |-> ss,
                                    has_strings |-> has_strings,
                                    user |-> user, overwrite |-> ow]]
    /\ rel' = [rel EXCEPT ![p] = IF has_strings
                                    THEN Relation(p, r, lang, ss)
                                    ELSE "none"]
    /\ parse' = [parse EXCEPT ![p] = how]
    /\ pre' = [pre EXCEPT ![p] = [se |-> seRows, tr |-> trRows]]
    /\ faultAt' = [faultAt EXCEPT ![p] = NoFault]
    /\ idx' = [idx EXCEPT ![p] = 0]
    /\ se' = [se EXCEPT ![p] = NoId]
    /\ tr' = [tr EXCEPT ![p] = NoId]
    /\ created' = [created EXCEPT ![p] = FALSE]
    /\ strings_added' = [strings_added EXCEPT ![p] = 0]
    /\ strings_updated' = [strings_updated EXCEPT ![p] = 0]
    /\ ret' = [ret EXCEPT ![p] = NoRet]
    /\ outcome' = [outcome EXCEPT ![p] = "none"]
    \* for j in stringset.strings: None has no attribute strings
    /\ pc' = [pc EXCEPT ![p] = IF ~has_strings THEN "except"
                               ELSE IF Len(ss) = 0 THEN "else"
                               ELSE "se_get"]
    /\ UNCHANGED <<handler, tables, pending, lastCommit>>

\* A direct call of merge_stringset by a caller that holds no earlier
\* result.
MergeStringset(p, r, lang, ss, ow) ==
    /\ pc[p] = "idle"
    /\ Enter(p, r, lang, ss, TRUE, NoUser, ow, "direct")

\* PARSER_MAPPING: the MIME types that have a parser, one per class of
\* PARSERS.
PARSER_MAPPING == {"PofileParser.mime_type", "LinguistParser.mime_type",
                   "JavaPropertiesParser.mime_type",
                   "AppleStringsParser.mime_type"}

\* What parser.parse_file does with a file: it returns a stringset
\* ("stringset"), it raises ("raises"), or it returns a value that is no
\* stringset, the case StorageFile.update_props tests for with
\* "if not stringset" ("none").
ParseResults == {"stringset", "raises", "none"}

\* merge_translation_file (lines 300-302).  The file has MIME type mime and
\* language lang; parse_file applied to it yields result, and the stringset
\* ss when result is "stringset".  An exception of line 301 leaves the
\* function before merge_stringset is called.  merge_stringset is called
\* with its default arguments user=None, overwrite_translations=True.
MergeTranslationFile(p, r, mime, lang, result, ss) ==
    /\ pc[p] = "idle"
    /\ IF mime \notin PARSER_MAPPING \/ result = "raises"
         THEN /\ pc' = [pc EXCEPT ![p] = "done"]
              /\ outcome' = [outcome EXCEPT ![p] = "raised"]
              /\ ret' = [ret EXCEPT ![p] = [added |-> 0, updated |-> 0,
                                            error |-> TRUE]]
              /\ parse' = [parse EXCEPT ![p] =
                              IF mime \notin PARSER_MAPPING
                                THEN "KeyError" ELSE "raises"]
              /\ pre' = [pre EXCEPT ![p] = [se |-> seRows, tr |-> trRows]]
              /\ call' = [call EXCEPT ![p] =
                              [InitCall EXCEPT !.resource = r,
                                               !.language = lang,
                                               !.has_strings = FALSE]]
              /\ UNCHANGED <<handler, tables, pending, idx, locals, faultAt, rel,
                             lastCommit>>
         ELSE IF result = "none"
         THEN Enter(p, r, lang, <<>>, FALSE, NoUser, TRUE, "none")
         ELSE Enter(p, r, lang, ss, TRUE, NoUser, TRUE, "stringset")

\* The inputs a caller merges right after a finished merge of ss: the same
\* stringset, or the stringset with the translation of one entry changed.
Variants(ss) ==
    {ss} \cup {[ss EXCEPT ![i].translation = t] :
                  i \in 1..Len(ss), t \in Texts}

\* A direct call of merge_stringset that merges the stringset of the call
\* just finished again (same resource and language).
MergeAgain(p, ss, ow) ==
    /\ pc[p] = "done"
    /\ call[p].has_strings
    /\ Enter(p, call[p].resource, call[p].language, ss, TRUE, NoUser, ow,
             "direct")

\* The caller lets go of the result of its finished call.
Forget(p) ==
    /\ pc[p] = "done"
    /\ pc' = [pc EXCEPT ![p] = "idle"]
    /\ call' = [call EXCEPT ![p] = InitCall]
    /\ ret' = [ret EXCEPT ![p] = NoRet]
    /\ outcome' = [outcome EXCEPT ![p] = "none"]
    /\ pre' = [pre EXCEPT ![p] = NoTables]
    /\ faultAt' = [faultAt EXCEPT ![p] = NoFault]
    /\ rel' = [rel EXCEPT ![p] = "none"]
    /\ parse' = [parse EXCEPT ![p] = "direct"]
    /\ UNCHANGED <<handler, tables, pending, idx, locals, lastCommit>>

\* SourceEntity.objects.get_or_create, the get.
SeGet(p) ==
    /\ pc[p] = "se_get"
    /\ LET m == SeLookup(p) IN
       IF Cardinality(m) = 1
         THEN /\ se' = [se EXCEPT ![p] = (CHOOSE s \in m : TRUE).id]
              /\ created' = [created EXCEPT ![p] = FALSE]
              /\ pc' = [pc EXCEPT ![p] = "tr_get"]
       ELSE IF m = {}
         THEN /\ pc' = [pc EXCEPT ![p] = "se_create"]
              /\ UNCHANGED <<se, created>>
       ELSE   \* MultipleObjectsReturned
              /\ Raise(p)
              /\ UNCHANGED <<se, created>>
    /\ UNCHANGED <<handler, tables, pending, call, idx, tr, strings_added,
                   strings_updated, ret, outcome, history>>

\* SourceEntity.objects.get_or_create, the create after DoesNotExist.
SeCreate(p) ==
    /\ pc[p] = "se_create"
    /\ LET row == NewSeRow(p) IN
       IF SeKeyTaken(SeVisible(p), row)
         THEN \* IntegrityError: the savepoint is rolled back, get again
              LET m == SeLookup(p) IN
              IF Cardinality(m) = 1
                THEN /\ se' = [se EXCEPT ![p] = (CHOOSE s \in m : TRUE).id]
                     /\ created' = [created EXCEPT ![p] = FALSE]
                     /\ pc' = [pc EXCEPT ![p] = "tr_get"]
                     /\ UNCHANGED txnSe
                ELSE /\ Raise(p)
                     /\ UNCHANGED <<se, created, txnSe>>
         ELSE /\ SeBlockers(p) = {}
              /\ txnSe' = [txnSe EXCEPT ![p] = @ \cup {row}]
              /\ se' = [se EXCEPT ![p] = row.id]
              /\ created' = [created EXCEPT ![p] = TRUE]
              /\ pc' = [pc EXCEPT ![p] = "tr_get"]
    /\ UNCHANGED <<handler, tables, txnTr, call, idx, tr, strings_added,
                   strings_updated, ret, outcome, history>>

\* Translation.objects.get_or_create, the get, then lines 285-288.
TrGet(p) ==
    /\ pc[p] = "tr_get"
    /\ LET m == TrLookup(p) IN
       IF Cardinality(m) = 1
         THEN TrResolved(p, (CHOOSE t \in m : TRUE).id, FALSE)
       ELSE IF m = {}
         THEN /\ pc' = [pc EXCEPT ![p] = "tr_create"]
              /\ UNCHANGED <<tr, created, strings_added, idx>>
       ELSE   \* MultipleObjectsReturned
              /\ Raise(p)
              /\ UNCHANGED <<tr, created, strings_added, idx>>
    /\ UNCHANGED <<handler, tables, pending, call, se, strings_updated, ret, outcome,
                   history>>

\* Translation.objects.get_or_create, the create, then lines 285-288.
TrCreate(p) ==
    /\ pc[p] = "tr_create"
    /\ LET row == NewTrRow(p) IN
       IF TrKeyTaken(TrVisible(p), row)
         THEN \* IntegrityError: the savepoint is rolled back, get again
              LET m == TrLookup(p) IN
              IF Cardinality(m) = 1
                THEN /\ TrResolved(p, (CHOOSE t \in m : TRUE).id, FALSE)
                     /\ UNCHANGED txnTr
                ELSE /\ Raise(p)
                     /\ UNCHANGED <<tr, created, strings_added, idx, txnTr>>
         ELSE /\ TrBlockers(p) = {}
              /\ txnTr' = [txnTr EXCEPT ![p] = @ \cup {row}]
              /\ TrResolved(p, row.id, TRUE)
    /\ UNCHANGED <<handler, tables, txnSe, call, se, strings_updated, ret, outcome,
                   history>>

\* Line 289 with the row named as it is bound, "if tr.string !=
\* j.translation": lines 290-291 run, strings_updated += 1.
L289CountsUpdate(p) ==
    /\ pc[p] = "l289"
    /\ LET row == CHOOSE t \in TrVisible(p) : t.id = tr[p] IN
          strings_updated' =
              [strings_updated EXCEPT ![p] =
                  IF row.string # CurEntry(p).translation THEN @ + 1 ELSE @]
    /\ pc' = [pc EXCEPT ![p] = AfterEntry(p)]
    /\ idx' = [idx EXCEPT ![p] = @ + 1]
    /\ UNCHANGED <<handler, tables, pending, call, se, tr, created,
                   strings_added, ret, outcome, history>>

\* Line 289, "if ts.string != j.translation": no name ts is bound in the
\* function or the module, so evaluating the condition raises NameError.
L289(p) ==
    /\ pc[p] = "l289"
    /\ Raise(p)
    /\ UNCHANGED <<handler, tables, pending, call, idx, locals, ret, outcome, history>>

\* The frame of the call is left: its locals are gone.
Return(p) ==
    /\ idx' = [idx EXCEPT ![p] = 0]
    /\ se' = [se EXCEPT ![p] = NoId]
    /\ tr' = [tr EXCEPT ![p] = NoId]
    /\ created' = [created EXCEPT ![p] = FALSE]
    /\ strings_added' = [strings_added EXCEPT ![p] = 0]
    /\ strings_updated' = [strings_updated EXCEPT ![p] = 0]

\* How the call stands once it has ended its transaction by op, prev being
\* how it stood before: "twice" when it had ended it already.
EndedBy(prev, op) == IF prev = "none" THEN op ELSE "twice"

\* The except clause without its return: control goes on to the else
\* clause.
ExceptFallsThrough == "else"

\* Line 295: return 0,0
AfterExcept == "done"

\* Lines 293-295: except: transaction.rollback(); return 0,0
Except(p) ==
    /\ pc[p] = "except"
    /\ seRows' = RolledBack(seRows, txnSe[p])
    /\ trRows' = RolledBack(trRows, txnTr[p])
    /\ txnSe' = [txnSe EXCEPT ![p] = {}]
    /\ txnTr' = [txnTr EXCEPT ![p] = {}]
    /\ ret' = [ret EXCEPT ![p] = [added |-> 0, updated |-> 0, error |-> FALSE]]
    /\ outcome' = [outcome EXCEPT ![p] = EndedBy(@, "rollback")]
    /\ pc' = [pc EXCEPT ![p] = AfterExcept]
    /\ Return(p)
    /\ UNCHANGED <<handler, call, history>>

\* Lines 296-298: else: transaction.commit(); return strings_added,
\* strings_updated
Else(p) ==
    /\ pc[p] = "else"
    /\ seRows' = Committed(seRows, txnSe[p])
    /\ trRows' = Committed(trRows, txnTr[p])
    /\ txnSe' = [txnSe EXCEPT ![p] = {}]
    /\ txnTr' = [txnTr EXCEPT ![p] = {}]
    /\ ret' = [ret EXCEPT ![p] = [added |-> strings_added[p],
                                  updated |-> strings_updated[p],
                                  error |-> FALSE]]
    /\ outcome' = [outcome EXCEPT ![p] = EndedBy(@, "commit")]
    /\ lastCommit' = p
    /\ pc' = [pc EXCEPT ![p] = "done"]
    /\ Return(p)
    /\ UNCHANGED <<handler, call, pre, faultAt, rel, parse>>

InLoop(p) == pc[p] \in {"se_get", "se_create", "tr_get", "tr_create"}

\* An unexpected fault (a database or driver error) raised by a statement of
\* the try body.
Fault(p) ==
    /\ InLoop(p)
    /\ faultAt' = [faultAt EXCEPT ![p] = idx[p]]
    /\ Raise(p)
    /\ UNCHANGED <<handler, tables, pending, call, idx, locals, ret, outcome, pre, rel,
                   parse, lastCommit>>

\* Two callers each wait for a key the other holds: the database ends the
\* wait of one of them with an error raised from its INSERT.
DeadlockAbort(p) ==
    /\ \E q \in Blockers(p) : p \in Blockers(q)
    /\ faultAt' = [faultAt EXCEPT ![p] = idx[p]]
    /\ Raise(p)
    /\ UNCHANGED <<handler, tables, pending, call, idx, locals, ret, outcome, pre, rel,
                   parse, lastCommit>>

Step(p) ==
    \/ SeGet(p) \/ SeCreate(p) \/ TrGet(p) \/ TrCreate(p)
    \/ L289(p) \/ Except(p) \/ Else(p)

\* ------------------------------------------------------------------- Init
InitWith(ses, trs) ==
    /\ seRows = ses
    /\ trRows = trs
    /\ txnSe = [p \in Procs |-> {}]
    /\ txnTr = [p \in Procs |-> {}]
    /\ pc = [p \in Procs |-> "idle"]
    /\ call = [p \in Procs |-> InitCall]
    /\ idx = [p \in Procs |-> 0]
    /\ se = [p \in Procs |-> NoId]
    /\ tr = [p \in Procs |-> NoId]
    /\ created = [p \in Procs |-> FALSE]
    /\ strings_added = [p \in Procs |-> 0]
    /\ strings_updated = [p \in Procs |-> 0]
    /\ ret = [p \in Procs |-> NoRet]
    /\ outcome = [p \in Procs |-> "none"]
    /\ pre = [p \in Procs |-> NoTables]
    /\ faultAt = [p \in Procs |-> NoFault]
    /\ rel = [p \in Procs |-> "none"]
    /\ parse = [p \in Procs |-> "direct"]
    /\ lastCommit = "none"
    /\ at = "idle"
    /\ stats = {}
    /\ isIntltooled = FALSE
    /\ isMsgmerged = FALSE
    /\ langs = <<>>
    /\ visited = 0
    /\ workdir = "clean"
    /\ calls = <<>>

\* A new installation: both tables empty.
Init == InitWith({}, {})

\* ------------------------------------------- one caller, calls in sequence
NextSeq ==
    \/ \E ss \in Stringsets, ow \in BOOLEAN :
          MergeStringset("p1", "r1", "fr", ss, ow)
    \/ \E ss \in Variants(call["p1"].stringset), ow \in BOOLEAN :
          MergeAgain("p1", ss, ow)
    \/ Step("p1")
    \/ Fault("p1")
    \/ Forget("p1")

SpecSeq == Init /\ [][NextSeq]_vars

\* ------------------------------------------- two callers, calls overlap
\* The tables after merge_stringset of <<SeedEntry>> into r1 for fr.
SeedEntry == [source_entity |-> "Hello", context |-> "", number |-> 0,
              translation |-> "Bonjour"]
SeedSe == [id |-> <<<<"Hello", "None", "r1", 0>>, 1>>, string |-> "Hello",
           context |-> "None", resource |-> "r1", number |-> 0,
           position |-> 1]
SeedTr == [id |-> <<<<SeedSe.id, "Bonjour", "fr", "r1", 0>>, 1>>,
           source_entity |-> SeedSe.id, language |-> "fr",
           resource |-> "r1", number |-> 0, string |-> "Bonjour",
           user |-> NoUser]

InitConc == InitWith({}, {}) \/ InitWith({SeedSe}, {SeedTr})

\* Stringsets of the overlapping callers: one entry, or two entries with
\* different keys, over the contexts "" and "menu".
ConcEntries == {e \in Entries : e.context \in {"", "menu"}}
ConcStringsets ==
    {<<e>> : e \in ConcEntries}
    \cup {ss \in {<<e, f>> : e \in ConcEntries, f \in ConcEntries} :
             EntryKey(ss[1]) # EntryKey(ss[2])}

NextConc ==
    \E p \in Procs :
        \/ \E lang \in Languages, ss \in ConcStringsets, ow \in BOOLEAN :
              MergeStringset(p, "r1", lang, ss, ow)
        \/ Step(p)
        \/ DeadlockAbort(p)

SpecConc == InitConc /\ [][NextConc]_vars

\* ------------------------------------- one caller, merges of uploaded files
FileMimeTypes == {"PofileParser.mime_type", ""}

NextFile ==
    \/ \E mime \in FileMimeTypes, result \in ParseResults,
          ss \in Stringsets :
          MergeTranslationFile("p1", "r1", mime, "fr", result,
                               IF result = "stringset" THEN ss ELSE <<>>)
    \/ Step("p1")
    \/ Forget("p1")

SpecFile == Init /\ [][NextFile]_vars


\* ------------------------------------------------ reading the catalog
DistinctBy(ss, K(_)) ==
    \A i, k \in 1..Len(ss) : i # k => K(ss[i]) # K(ss[k])

\* SourceEntity rows of resource r among ses that carry the key of entry e.
SeOf(ses, r, e) ==
    {s \in ses : /\ s.resource = r /\ s.string = e.source_entity
                 /\ s.context = NormContext(e.context)
                 /\ s.number = e.number}

\* Translation rows among trs for entry e of resource r in language lang.
TrOf(ses, trs, r, lang, e) ==
    {t \in trs : /\ t.resource = r /\ t.language = lang
                 /\ t.number = e.number
                 /\ t.source_entity \in {s.id : s \in SeOf(ses, r, e)}}

StoredTexts(ses, trs, r, lang, e) ==
    {t.string : t \in TrOf(ses, trs, r, lang, e)}

Finished(p) == pc[p] = "done"
Unfaulted(p) == faultAt[p] = NoFault

\* Texts stored for entry i of p's call when the call began / now.
TextsBefore(p, i) ==
    StoredTexts(pre[p].se, pre[p].tr, call[p].resource, call[p].language,
                call[p].stringset[i])
TextsNow(p, i) ==
    StoredTexts(seRows, trRows, call[p].resource, call[p].language,
                call[p].stringset[i])

CatalogAsBefore(p) == seRows = pre[p].se /\ trRows = pre[p].tr

\* ------------------------------------------------------------------ C1
\* C1: whenever a call of merge_stringset ends through its except clause
\* (an unexpected fault after any number of processed entries), the
\* committed tables are what they were when the call began, no row of the
\* stringset has been kept, and the call returns added = 0, updated = 0.
C1_RollbackAtomicity ==
    \A p \in Procs :
        Finished(p) /\ outcome[p] = "rollback" =>
            /\ CatalogAsBefore(p)
            /\ ret[p].added = 0
            /\ ret[p].updated = 0

\* A fault after entry 1 of 2 or more, whose SourceEntity had been inserted
\* by the call and is gone after it.
C1_Witness ==
    /\ Finished("p1") /\ outcome["p1"] = "rollback"
    /\ faultAt["p1"] >= 1
    /\ faultAt["p1"] < Len(call["p1"].stringset)
    /\ SeOf(seRows, call["p1"].resource, call["p1"].stringset[1]) = {}
    /\ ret["p1"].added = 0

\* ------------------------------------------------------------------ C3
\* C3: a stringset that has been merged is merged again for the same
\* resource and language with overwrite_translations true and the
\* translation of one entry changed: the call returns added = 0,
\* updated = 1 and the stored text of that entry is the new text.
C3_Case(p) ==
    /\ Finished(p) /\ Unfaulted(p)
    /\ rel[p] = "changed"
    /\ call[p].overwrite
    /\ DistinctBy(call[p].stringset, EntryKey)
    /\ \A i \in 1..Len(call[p].stringset) :
          Cardinality(TextsBefore(p, i)) = 1
    /\ Cardinality({i \in 1..Len(call[p].stringset) :
          TextsBefore(p, i) # {call[p].stringset[i].translation}}) = 1

C3_UpdateOnChangedText ==
    \A p \in Procs :
        C3_Case(p) =>
            /\ ret[p].added = 0
            /\ ret[p].updated = 1
            /\ \A i \in 1..Len(call[p].stringset) :
                  TextsNow(p, i) = {call[p].stringset[i].translation}

\* ------------------------------------------------------------------ C4
\* C4: the same stringset merged a second time into the same resource and
\* language, both times with overwrite_translations false, returns
\* added = 0 and leaves both tables exactly as the first merge left them.
C4_Idempotence ==
    \A p \in Procs :
        Finished(p) /\ Unfaulted(p) /\ rel[p] = "again" /\ ~call[p].overwrite
            => /\ ret[p].added = 0
               /\ outcome[p] = "commit"
               /\ CatalogAsBefore(p)

C4_Witness ==
    /\ Finished("p1") /\ Unfaulted("p1") /\ rel["p1"] = "again"
    /\ ~call["p1"].overwrite
    /\ Len(call["p1"].stringset) >= 2
    /\ DistinctBy(call["p1"].stringset, EntryKey)
    /\ outcome["p1"] = "commit"
    /\ Cardinality(trRows) >= 2

\* ------------------------------------------------------------------ C5
\* The resource of p's call had no SourceEntity row when the call began.
EmptyBefore(p) == \A s \in pre[p].se : s.resource # call[p].resource

C5_Result(p) ==
    LET k == Len(call[p].stringset)
        r == call[p].resource
    IN /\ ret[p].added = k
       /\ ret[p].updated = 0
       /\ Cardinality({s \in seRows : s.resource = r}) = k
       /\ Cardinality({t \in trRows : t.resource = r
                          /\ t.language = call[p].language}) = k

\* C5 as stated: a stringset of k entries whose (source text, context,
\* number) keys are pairwise distinct, merged into a resource without
\* SourceEntity rows, returns added = k, updated = 0 and leaves k
\* SourceEntity rows and k Translation rows of the target language.
C5_Original ==
    \A p \in Procs :
        Finished(p) /\ Unfaulted(p) /\ EmptyBefore(p)
        /\ DistinctBy(call[p].stringset, RawKey)
            => C5_Result(p)

\* C5 amended: the same, for entries whose keys are pairwise distinct once
\* the context is normalized (an empty context and the context "None" are
\* one key).
C5_Additivity ==
    \A p \in Procs :
        Finished(p) /\ Unfaulted(p) /\ EmptyBefore(p)
        /\ DistinctBy(call[p].stringset, EntryKey)
            => C5_Result(p)

C5_Witness ==
    /\ Finished("p1") /\ Unfaulted("p1") /\ EmptyBefore("p1")
    /\ DistinctBy(call["p1"].stringset, EntryKey)
    /\ Len(call["p1"].stringset) = 2
    /\ ret["p1"].added = 2
    /\ Cardinality(seRows) = 2

\* ------------------------------------------------------------------ C6
IdenticalBefore(p, i) ==
    TextsBefore(p, i) = {call[p].stringset[i].translation}
NewBefore(p, i) ==
    SeOf(pre[p].se, call[p].resource, call[p].stringset[i]) = {}

C6_Case(p) ==
    /\ Finished(p) /\ Unfaulted(p)
    /\ call[p].overwrite
    /\ DistinctBy(call[p].stringset, EntryKey)
    /\ \A i \in 1..Len(call[p].stringset) :
          IdenticalBefore(p, i) \/ NewBefore(p, i)
    /\ \E i \in 1..Len(call[p].stringset) : IdenticalBefore(p, i)
    /\ \E i \in 1..Len(call[p].stringset) : NewBefore(p, i)

\* C6: with overwrite_translations true, entries whose stored translation
\* has the identical text change neither the tables nor a count; the new
\* entries of the same stringset are created and counted in added,
\* updated is 0 and the merge commits.
C6_IdenticalIsNoOp ==
    \A p \in Procs :
        C6_Case(p) =>
            /\ outcome[p] = "commit"
            /\ ret[p].updated = 0
            /\ ret[p].added = Cardinality({i \in 1..Len(call[p].stringset) :
                                              NewBefore(p, i)})
            /\ \A i \in 1..Len(call[p].stringset) :
                  TextsNow(p, i) = {call[p].stringset[i].translation}

\* ------------------------------------------------------------------ C7
\* What a successful merge that adds and updates nothing hands back.
EmptyMergeResult == [added |-> 0, updated |-> 0, error |-> FALSE]

\* C7: a call that rolled back hands its caller a propagated error, so
\* what the caller sees differs from a successful merge that added and
\* updated nothing.
C7_FailureDistinguishable ==
    \A p \in Procs :
        Finished(p) /\ outcome[p] = "rollback" =>
            /\ ret[p].error
            /\ ret[p] # EmptyMergeResult

\* ------------------------------------------------------------------ C9
\* C9: a merge with overwrite_translations false never reaches the update
\* branch, counts no update, and every Translation row stored when it
\* began is still stored with the same text when it has finished.
C9_NoOverwriteFrame ==
    \A p \in Procs :
        ~call[p].overwrite =>
            /\ pc[p] # "l289"
            /\ strings_updated[p] = 0
            /\ ret[p].updated = 0
            /\ Finished(p) => \A t \in pre[p].tr : t \in trRows

\* A committed merge without overwrite of an entry whose stored text
\* differs from the entry's.
C9_Witness ==
    /\ Finished("p1") /\ ~call["p1"].overwrite
    /\ outcome["p1"] = "commit"
    /\ \E i \in 1..Len(call["p1"].stringset) :
          /\ Cardinality(TextsBefore("p1", i)) = 1
          /\ TextsBefore("p1", i) # {call["p1"].stringset[i].translation}
          /\ TextsNow("p1", i) = TextsBefore("p1", i)


\* ------------------------------------------------------------------ C2
\* The current entry of p has been resolved to a SourceEntity.
SeResolved(p) == pc[p] \in {"tr_get", "tr_create", "l289"}

\* Key k is in the stringset of p's call.
HasKey(p, k) ==
    \E i \in 1..Len(call[p].stringset) : EntryKey(call[p].stringset[i]) = k

\* SourceEntity rows of resource r among ses with entry key k.
SeWithKey(ses, r, k) ==
    {s \in ses : s.resource = r /\ <<s.string, s.context, s.number>> = k}

\* C2: in every reachable state no two SourceEntity rows (committed or
\* pending in any transaction) share (string, context, resource, number);
\* a caller that has resolved an entry holds the one row with the entry's
\* key; and when overlapping callers that all bring a key new to them have
\* finished, the resource has exactly one row with that key if one of them
\* committed (none otherwise).
C2_Uniqueness ==
    /\ \A s1, s2 \in AllSe : SeUniqueKey(s1) = SeUniqueKey(s2) => s1 = s2
    /\ \A p \in Procs :
          SeResolved(p) =>
              {s.id : s \in SeOf(AllSe, call[p].resource, CurEntry(p))}
                  = {se[p]}
    /\ \A k \in {EntryKey(e) : e \in Entries}, r \in Resources :
          (\A p \in Procs : /\ Finished(p) /\ call[p].resource = r
                            /\ HasKey(p, k)
                            /\ SeWithKey(pre[p].se, r, k) = {})
              => Cardinality(SeWithKey(seRows, r, k)) =
                    IF \E p \in Procs : outcome[p] = "commit" THEN 1 ELSE 0

\* Two callers brought the same key, new to both when they began; both
\* committed (so their calls overlapped) and one row carries the key.
C2_Witness ==
    \E k \in {EntryKey(e) : e \in Entries} :
        /\ \A p \in Procs : /\ Finished(p) /\ HasKey(p, k)
                            /\ SeWithKey(pre[p].se, "r1", k) = {}
                            /\ outcome[p] = "commit"
                            /\ ret[p].added >= 1
        /\ Cardinality(SeWithKey(seRows, "r1", k)) = 1

\* ------------------------------------------------------------------ C8
\* The translation p's stringset carries for key k.
TextFor(p, k) ==
    LET i == CHOOSE i \in 1..Len(call[p].stringset) :
                 EntryKey(call[p].stringset[i]) = k
    IN call[p].stringset[i].translation

\* Texts stored now for key k of resource r in language lang.
TextsOfKey(r, lang, k) ==
    {t.string : t \in {t \in trRows :
        /\ t.resource = r /\ t.language = lang /\ t.number = k[3]
        /\ t.source_entity \in {s.id : s \in SeWithKey(seRows, r, k)}}}

\* Two finished and committed calls on one resource and language, both
\* with overwrite_translations true, that carry different texts for key k.
C8_Case(p, q, k) ==
    /\ p # q
    /\ Finished(p) /\ Finished(q)
    /\ outcome[p] = "commit" /\ outcome[q] = "commit"
    /\ call[p].overwrite /\ call[q].overwrite
    /\ call[p].resource = call[q].resource
    /\ call[p].language = call[q].language
    /\ HasKey(p, k) /\ HasKey(q, k)
    /\ TextFor(p, k) # TextFor(q, k)

\* C8: once both calls have finished, the text stored for the key is the
\* text of the call that committed last.
C8_NoLostUpdate ==
    \A p, q \in Procs :
        \A k \in {EntryKey(e) : e \in Entries} :
            C8_Case(p, q, k) =>
                \E w \in {p, q} :
                    /\ lastCommit = w
                    /\ TextsOfKey(call[w].resource, call[w].language, k)
                          = {TextFor(w, k)}

\* ----------------------------------------------------------------- C10
\* The parser for the file was missing or produced no stringset.
ParserFailed(p) == parse[p] \in {"KeyError", "raises", "none"}

\* C10: when the parser is missing or fails to produce a stringset,
\* merge_translation_file changes no table and hands its caller an error,
\* which a successful merge returning (0, 0) does not.
C10_ParserFailureAborts ==
    \A p \in Procs :
        Finished(p) /\ ParserFailed(p) =>
            /\ CatalogAsBefore(p)
            /\ ret[p].error
            /\ ret[p] # EmptyMergeResult

\* ----------------------------------------------------------------- C11
\* Row u is row t but for its text.
SameButText(t, u) == [u EXCEPT !.string = t.string] = t

\* Some call with overwrite_translations true is under way.
OverwriteUnderWay ==
    \E p \in Procs : pc[p] \notin {"idle", "done"} /\ call[p].overwrite

\* C11: no step of a merge_stringset call, whether the call commits or
\* rolls back, removes or changes a stored SourceEntity row or removes a
\* stored Translation row; a stored Translation row changes in nothing but
\* its text, and only while a call with overwrite_translations true runs.
C11_NeverDestructive ==
    [][/\ seRows \subseteq seRows'
       /\ \A t \in trRows :
             \E u \in trRows' :
                 /\ u.id = t.id
                 /\ SameButText(t, u)
                 /\ u.string # t.string => OverwriteUnderWay]_vars

\* A call that found rows stored, added an entry to them and committed,
\* after an earlier call on the same rows rolled back or committed too.
C11_Witness ==
    /\ Finished("p1") /\ outcome["p1"] = "commit"
    /\ pre["p1"].tr # {}
    /\ ret["p1"].added >= 1
    /\ pre["p1"].se \subseteq seRows
    /\ pre["p1"].tr \subseteq trRows
    /\ Cardinality(trRows) > Cardinality(pre["p1"].tr)

\* ----------------------------------------------------------------- C12
\* Some key occurs twice in the stringset of p's call.
HasDuplicates(p) == ~DistinctBy(call[p].stringset, EntryKey)

\* C12: the counts a call hands back never add up to more than the number
\* of entries of its stringset, and while the loop runs the counters never
\* exceed the number of entries handled so far; this for every stored
\* catalog, either value of overwrite_translations and stringsets that
\* repeat a key.
C12_CountBound ==
    \A p \in Procs :
        /\ ret[p].added + ret[p].updated <= Len(call[p].stringset)
        /\ strings_added[p] + strings_updated[p]
              <= idx[p] + (IF pc[p] = "l289" THEN 1 ELSE 0)

\* A committed call whose stringset repeats a key: both entries counted
\* against the bound, one of them added.
C12_Witness ==
    /\ Finished("p1") /\ outcome["p1"] = "commit"
    /\ HasDuplicates("p1")
    /\ Len(call["p1"].stringset) = 2
    /\ ret["p1"].added = 1
    /\ pre["p1"].se = {}

\* ----------------------------------------------------------------- C13
\* SourceEntity rows, committed or pending, of resource r with source text
\* s, number n and the literal context "None".
SeUnderNone(r, s, n) ==
    {x \in AllSe : /\ x.resource = r /\ x.string = s /\ x.number = n
                   /\ x.context = "None"}

\* C13: no SourceEntity row has an empty context, and a caller that has
\* resolved an entry whose context is empty or is "None" holds the one row
\* that carries the entry's source text and number under the context "None".
C13_ContextNormalized ==
    /\ \A s \in AllSe : s.context # ""
    /\ \A p \in Procs :
          SeResolved(p) /\ CurEntry(p).context \in {"", "None"} =>
              {x.id : x \in SeUnderNone(call[p].resource,
                                        CurEntry(p).source_entity,
                                        CurEntry(p).number)} = {se[p]}

\* A committed call whose stringset spells one key once with the empty
\* context and once with "None": one SourceEntity row, one entry added.
C13_Witness ==
    /\ Finished("p1") /\ outcome["p1"] = "commit"
    /\ pre["p1"].se = {}
    /\ Len(call["p1"].stringset) = 2
    /\ call["p1"].stringset[1].context = ""
    /\ call["p1"].stringset[2].context = "None"
    /\ Cardinality(seRows) = 1
    /\ \A s \in seRows : s.context = "None"
    /\ ret["p1"].added = 1

\* ------------------------------------------- IntltoolHandler.set_stats
\* Lists of languages get_langs returns.
LangLists == {<<>>, <<"fr">>, <<"de">>, <<"el">>, <<"fr", "de">>,
              <<"de", "fr">>, <<"de", "el">>, <<"fr", "de", "el">>}

\* The statistics row of the source file (POT) and of a language.
SourceStat(flag) == [of |-> "source", is_msgmerged |-> flag]
LangStat(lang) == [of |-> lang, is_msgmerged |-> TRUE]

\* What the callees of set_stats do to the statistics of the component.
StatsDeleted(st) == {}
WithSourceStat(st, flag) == {x \in st : x.of # "source"} \cup {SourceStat(flag)}
WithLangStat(st, lang) == {x \in st : x.of # lang} \cup {LangStat(lang)}

\* One call made by set_stats, with the value that went into or came out
\* of it.
Flag(b) == IF b THEN "True" ELSE "False"
Call(op, arg) == [op |-> op, arg |-> arg]

\* isMsgmerged=True regardless of what intltool_update returned.
IsMsgmergedAlways(b) == TRUE

\* Lines 28-33.
IsMsgmerged(b) == IF ~b THEN FALSE ELSE TRUE

\* set_stats is entered.
SetStats ==
    /\ at \in {"idle", "returned", "raised"}
    /\ at' = "l25"
    /\ calls' = <<>>
    /\ isIntltooled' = FALSE
    /\ isMsgmerged' = FALSE
    /\ langs' = <<>>
    /\ visited' = 0
    /\ UNCHANGED <<stats, workdir, merge>>

\* Line 25: self.tm.delete_stats_for_object(self.component)
DeleteStats ==
    /\ at = "l25"
    /\ stats' = StatsDeleted(stats)
    /\ calls' = Append(calls, Call("delete_stats_for_object", "component"))
    /\ at' = "l27"
    /\ UNCHANGED <<isIntltooled, isMsgmerged, langs, visited, workdir, merge>>

\* Lines 27-33: isIntltooled = self.tm.intltool_update(), which writes its
\* files into the working directory, then isMsgmerged is set.
IntltoolUpdate(result) ==
    /\ at = "l27"
    /\ isIntltooled' = result
    /\ isMsgmerged' = IsMsgmerged(result)
    /\ workdir' = "dirty"
    /\ calls' = Append(calls, Call("intltool_update", Flag(result)))
    /\ at' = "l36"
    /\ UNCHANGED <<stats, langs, visited, merge>>

\* Line 36: self.tm.set_source_stats(self.component, isMsgmerged)
SetSourceStats ==
    /\ at = "l36"
    /\ stats' = WithSourceStat(stats, isMsgmerged)
    /\ calls' = Append(calls, Call("set_source_stats", Flag(isMsgmerged)))
    /\ at' = "l38"
    /\ UNCHANGED <<isIntltooled, isMsgmerged, langs, visited, workdir, merge>>

\* Line 38: for lang in self.tm.get_langs()
GetLangs(ls) ==
    /\ at = "l38"
    /\ langs' = ls
    /\ visited' = 0
    /\ at' = IF Len(ls) = 0 THEN "l42" ELSE "l39"
    /\ UNCHANGED <<stats, isIntltooled, isMsgmerged, workdir, calls, merge>>

\* Line 39: self.set_stats_for_lang(lang), one turn of the loop.
SetStatsForLang ==
    /\ at = "l39"
    /\ LET lang == langs[visited + 1] IN
          /\ stats' = WithLangStat(stats, lang)
          /\ calls' = Append(calls, Call("set_stats_for_lang", lang))
    /\ visited' = visited + 1
    /\ at' = IF visited + 1 < Len(langs) THEN "l39" ELSE "l42"
    /\ UNCHANGED <<isIntltooled, isMsgmerged, langs, workdir, merge>>

\* Line 42: self.component.unit.browser._clean_dir()
CleanDir ==
    /\ at = "l42"
    /\ workdir' = "clean"
    /\ calls' = Append(calls, Call("_clean_dir", "component"))
    /\ at' = "returned"
    /\ UNCHANGED <<stats, isIntltooled, isMsgmerged, langs, visited, merge>>

InSetStats == at \in {"l25", "l27", "l36", "l38", "l39", "l42"}

\* The call set_stats is at raises (a database error, the extraction tool
\* that cannot be run, a repository error): no statement of set_stats
\* catches it, so it leaves set_stats.  An extraction that raises may have
\* written files already.
SetStatsRaises ==
    /\ InSetStats
    /\ at' = "raised"
    /\ \E w \in (IF at = "l27" THEN {workdir, "dirty"} ELSE {workdir}) :
          workdir' = w
    /\ UNCHANGED <<stats, isIntltooled, isMsgmerged, langs, visited, calls,
                   merge>>

NextStats ==
    \/ SetStats
    \/ DeleteStats
    \/ \E result \in BOOLEAN : IntltoolUpdate(result)
    \/ SetSourceStats
    \/ \E ls \in LangLists : GetLangs(ls)
    \/ SetStatsForLang
    \/ CleanDir
    \/ SetStatsRaises

SpecStats == Init /\ [][NextStats]_vars

\* set_stats has been left, by its return or by an exception.
SetStatsLeft == at \in {"returned", "raised"}

Called(op) == \E i \in 1..Len(calls) : calls[i].op = op

\* ----------------------------------------------------------------- C14
\* C14: whenever set_stats has been left, by returning or by an error
\* raised from the extraction or from a later statistics step, _clean_dir
\* has been called in that run.
C14_CleanupGuaranteed == SetStatsLeft => Called("_clean_dir")

\* ----------------------------------------------------------------- C15
\* The calls of a run of set_stats in which intltool_update returned
\* outcome and get_langs returned ls, in the order the claim gives.
StepsInOrder(outcome_, ls) ==
    <<Call("delete_stats_for_object", "component"),
      Call("intltool_update", Flag(outcome_)),
      Call("set_source_stats", Flag(outcome_))>>
    \o [i \in 1..Len(ls) |-> Call("set_stats_for_lang", ls[i])]
    \o <<Call("_clean_dir", "component")>>

\* C15: at every point of a run of set_stats the calls made so far are an
\* initial part of: delete the statistics, extract, record the source
\* statistics with the flag the extraction returned, recompute every
\* language of get_langs in turn, clean the working directory; a run that
\* returned has made all of them, whichever value the extraction returned.
C15_StepOrder ==
    LET steps == StepsInOrder(isIntltooled, langs) IN
    /\ Len(calls) <= Len(steps)
    /\ \A i \in 1..Len(calls) : calls[i] = steps[i]
    /\ at = "returned" =>
          /\ calls = steps
          /\ workdir = "clean"

\* A run that returned after a failed extraction and two languages.
C15_Witness ==
    /\ at = "returned"
    /\ ~isIntltooled
    /\ Len(langs) = 2
    /\ Len(calls) = 6
    /\ calls[3] = Call("set_source_stats", "False")

\* ------------------------------------------------ Resource statistics
\* translated_strings(language): the SourceEntity rows of resource r whose
\* id is among the source_entity values of the Translation rows of r in
\* language lang.
TranslatedStrings(ses, trs, r, lang) ==
    {s \in ses : /\ s.resource = r
                 /\ s.id \in {t.source_entity :
                                 t \in {u \in trs : /\ u.language = lang
                                                    /\ u.resource = r}}}

\* num_translated(language)
NumTranslated(ses, trs, r, lang) ==
    Cardinality(TranslatedStrings(ses, trs, r, lang))

\* total_entities
TotalEntities(ses, r) == Cardinality({s \in ses : s.resource = r})

\* trans_percent with the quotient rounded to the nearest integer.
TransPercentRounded(ses, trs, r, lang) ==
    LET t == NumTranslated(ses, trs, r, lang)
        n == TotalEntities(ses, r)
    IN IF n = 0 THEN 100 ELSE (t * 200 + n) \div (2 * n)

\* trans_percent(language): t * 100 / self.total_entities, the integer
\* division of Python 2, and 100 on ZeroDivisionError.
TransPercent(ses, trs, r, lang) ==
    LET t == NumTranslated(ses, trs, r, lang)
        n == TotalEntities(ses, r)
    IN IF n = 0 THEN 100 ELSE (t * 100) \div n

\* ------------------------------ one caller, entries merged one at a time
\* Four keys in two languages, so that a resource can be translated in
\* part.
PctEntries == [source_entity : {"Hello", "Bye"}, context : {"", "menu"},
               number : Numbers, translation : {"Bonjour"}]

NextPct ==
    \/ \E lang \in Languages, e \in PctEntries, ow \in BOOLEAN :
          MergeStringset("p1", "r1", lang, <<e>>, ow)
    \/ Step("p1")
    \/ Forget("p1")

SpecPct == Init /\ [][NextPct]_vars

\* ----------------------------------------------------------------- C16
\* The SourceEntity rows of resource r with at least one Translation row
\* in language lang.
HavingTranslation(r, lang) ==
    {s \in seRows : /\ s.resource = r
                    /\ \E t \in trRows : /\ t.source_entity = s.id
                                         /\ t.language = lang}

TrBefore(p, i) ==
    TrOf(pre[p].se, pre[p].tr, call[p].resource, call[p].language,
         call[p].stringset[i])
TrNow(p, i) ==
    TrOf(seRows, trRows, call[p].resource, call[p].language,
         call[p].stringset[i])

\* Entry i of p's call had one stored translation when the call began,
\* with a text other than the entry's.
OtherTextBefore(p, i) ==
    /\ Cardinality(TrBefore(p, i)) = 1
    /\ TextsBefore(p, i) # {call[p].stringset[i].translation}

\* C17 as stated: an entry whose text differs from the text stored for
\* its (entity, language, resource, number) is not resolved to the stored
\* row; a committed merge has created a new Translation row with the
\* entry's text and counted it as added.
C17_Original ==
    \A p \in Procs :
        Finished(p) /\ Unfaulted(p) /\ outcome[p] = "commit" =>
            \A i \in 1..Len(call[p].stringset) :
                OtherTextBefore(p, i) =>
                    /\ call[p].stringset[i].translation \in TextsNow(p, i)
                    /\ ret[p].added >= 1

\* C17 amended: the lookup is by (source_entity, language, resource,
\* number) without the text.  A Translation row is created only when the
\* caller sees no row for the entry's slot; an entry with one stored
\* translation resolves to it whatever its text, so that when the call has
\* finished the rows of the slot are the rows it had, and a call all of
\* whose entries had a stored translation returns added = 0.
C17_LookupIgnoresText ==
    \A p \in Procs :
        /\ pc[p] = "tr_create" =>
              TrOf(SeVisible(p), TrVisible(p), call[p].resource,
                   call[p].language, CurEntry(p)) = {}
        /\ Finished(p) /\ Unfaulted(p) =>
              /\ \A i \in 1..Len(call[p].stringset) :
                    Cardinality(TrBefore(p, i)) = 1 =>
                        TrNow(p, i) = TrBefore(p, i)
              /\ (\A i \in 1..Len(call[p].stringset) :
                     Cardinality(TrBefore(p, i)) = 1) => ret[p].added = 0

\* A committed merge of one entry whose text differs from the stored one:
\* nothing added, the stored row is the only row of the slot.
C17_Witness ==
    /\ Finished("p1") /\ Unfaulted("p1") /\ outcome["p1"] = "commit"
    /\ Len(call["p1"].stringset) = 1
    /\ OtherTextBefore("p1", 1)
    /\ TrNow("p1", 1) = TrBefore("p1", 1)
    /\ ret["p1"].added = 0

\* ------------------------- two callers, one call each, scheduled fairly
LiveStringsets ==
    {ss \in ConcStringsets :
        \A i \in 1..Len(ss) : ss[i].translation = "Bonjour"}

NextLive ==
    \E p \in Procs :
        \/ \E ss \in LiveStringsets, ow \in BOOLEAN :
              MergeStringset(p, "r1", "fr", ss, ow)
        \/ Step(p)
        \/ DeadlockAbort(p)

\* A worker that can take the next step of its call takes it, and the
\* database ends a deadlock.
SpecLive ==
    /\ Init
    /\ [][NextLive]_vars
    /\ \A p \in Procs : WF_vars(Step(p)) /\ WF_vars(DeadlockAbort(p))

\* ----------------------------------------------------------------- C18
\* The call of p is under way.
Running(p) == pc[p] \notin {"idle", "done"}

\* C18: a call that is under way has not ended its transaction and goes on
\* to finish; a finished call has ended its transaction once, by commit or
\* by rollback; a call that hands back a nonzero count committed, and one
\* that rolled back hands back (0, 0).
C18_EndsOnce ==
    /\ [](\A p \in Procs :
             /\ Running(p) => outcome[p] = "none"
             /\ Finished(p) =>
                   /\ outcome[p] \in {"commit", "rollback"}
                   /\ ret[p].added + ret[p].updated > 0
                         => outcome[p] = "commit"
                   /\ outcome[p] = "rollback"
                         => ret[p].added = 0 /\ ret[p].updated = 0)
    /\ \A p \in Procs : Running(p) ~> Finished(p)

\* Two overlapping calls, one committed with an entry added, the other
\* ended by rollback.
C18_Witness ==
    /\ Finished("p1") /\ Finished("p2")
    /\ outcome["p1"] = "commit" /\ ret["p1"].added >= 1
    /\ outcome["p2"] = "rollback"
    /\ ret["p2"].added = 0 /\ ret["p2"].updated = 0
    /\ pre["p2"].se = {}

\* --------------------------- two callers, each on a resource of its own
\* The tables after merge_stringset of <<SeedEntry>> into r2 for fr.
SeedSe2 == [id |-> <<<<"Hello", "None", "r2", 0>>, 1>>, string |-> "Hello",
            context |-> "None", resource |-> "r2", number |-> 0,
            position |-> 1]
SeedTr2 == [id |-> <<<<SeedSe2.id, "Bonjour", "fr", "r2", 0>>, 1>>,
            source_entity |-> SeedSe2.id, language |-> "fr",
            resource |-> "r2", number |-> 0, string |-> "Bonjour",
            user |-> NoUser]

InitRes == InitWith({}, {}) \/ InitWith({SeedSe, SeedSe2}, {SeedTr, SeedTr2})

ResourceOf(p) == IF p = "p1" THEN "r1" ELSE "r2"

NextRes ==
    \E p \in Procs :
        \/ \E ss \in ConcStringsets, ow \in BOOLEAN :
              MergeStringset(p, ResourceOf(p), "fr", ss, ow)
        \/ Step(p)

SpecRes == InitRes /\ [][NextRes]_vars

\* ------------------------------------- merge_stringset run on its own
\* The try body of merge_stringset from entry i on, as one function of the
\* tables the call sees: the tables and the count it ends with, and
\* whether it ended without an exception.
RECURSIVE MergeFrom(_, _, _, _, _)
MergeFrom(ses, trs, c, i, added) ==
    IF i > Len(c.stringset)
      THEN [se |-> ses, tr |-> trs, added |-> added, ok |-> TRUE]
    ELSE
      LET j == c.stringset[i]
          found == SeOf(ses, c.resource, j)
          seRow == [id |-> NoId, string |-> j.source_entity,
                    context |-> NormContext(j.context),
                    resource |-> c.resource, number |-> j.number,
                    position |-> 1]
          newSe == [seRow EXCEPT !.id = FreshId({s.id : s \in ses},
                                                SeUniqueKey(seRow))]
          sid == IF found = {} THEN newSe.id
                 ELSE (CHOOSE s \in found : TRUE).id
          ses2 == IF found = {} THEN ses \cup {newSe} ELSE ses
          slot == {t \in trs : /\ t.source_entity = sid
                               /\ t.language = c.language
                               /\ t.resource = c.resource
                               /\ t.number = j.number}
          trRow == [id |-> NoId, source_entity |-> sid,
                    language |-> c.language, resource |-> c.resource,
                    number |-> j.number, string |-> j.translation,
                    user |-> c.user]
          newTr == [trRow EXCEPT !.id = FreshId({t.id : t \in trs},
                                                TrUniqueKey(trRow))]
          raised == [se |-> ses, tr |-> trs, added |-> added, ok |-> FALSE]
      IN IF Cardinality(found) > 1 \/ Cardinality(slot) > 1
           THEN raised                       \* MultipleObjectsReturned
         ELSE IF slot = {}
           THEN MergeFrom(ses2, trs \cup {newTr}, c, i + 1, added + 1)
         ELSE IF c.overwrite
           THEN raised                       \* line 289
         ELSE MergeFrom(ses2, trs, c, i + 1, added)

\* merge_stringset with the arguments c on the tables (ses, trs), no other
\* call under way: the tables and the result it leaves.
MergeAlone(ses, trs, c) ==
    LET m == MergeFrom(ses, trs, c, 1, 0) IN
    IF m.ok
      THEN [se |-> m.se, tr |-> m.tr, outcome |-> "commit",
            ret |-> [added |-> m.added, updated |-> 0, error |-> FALSE]]
      ELSE [se |-> ses, tr |-> trs, outcome |-> "rollback",
            ret |-> [added |-> 0, updated |-> 0, error |-> FALSE]]

\* ----------------------------------------------------------------- C19
\* The calls of p and q run one after the other, p first, on the tables
\* (ses, trs) end as the two calls have ended now.
AsInSequence(ses, trs, p, q) ==
    LET a == MergeAlone(ses, trs, call[p])
        b == MergeAlone(a.se, a.tr, call[q])
    IN /\ seRows = b.se /\ trRows = b.tr
       /\ ret[p] = a.ret /\ outcome[p] = a.outcome
       /\ ret[q] = b.ret /\ outcome[q] = b.outcome

\* C19: a call writes rows of its own resource only, and once two calls on
\* different resources have finished, however their steps interleaved, the
\* tables and the results of both calls are those of running the two calls
\* one after the other, in either order, on the tables they started from.
C19_Independence ==
    /\ \A p \in Procs :
          /\ \A s \in txnSe[p] : s.resource = call[p].resource
          /\ \A t \in txnTr[p] : t.resource = call[p].resource
    /\ \A p, q \in Procs :
          /\ p # q /\ Finished(p) /\ Finished(q)
          /\ call[p].resource # call[q].resource
          => AsInSequence(pre[p].se \cap pre[q].se,
                          pre[p].tr \cap pre[q].tr, p, q)

\* Two calls on r1 and r2 that began on the same tables, so overlapped,
\* and both committed rows of their resource.
C19_Witness ==
    /\ Finished("p1") /\ Finished("p2")
    /\ call["p1"].resource = "r1" /\ call["p2"].resource = "r2"
    /\ pre["p1"] = pre["p2"]
    /\ ret["p1"].added = 2 /\ ret["p2"].added >= 1
    /\ \E s \in seRows \ pre["p1"].se : s.resource = "r1"
    /\ \E s \in seRows \ pre["p1"].se : s.resource = "r2"

\* ----------------------------------------------------------------- C20
\* The arguments the Translation lookup of merge_stringset identifies a
\* row by.
TrSlot(t) == <<t.source_entity, t.language, t.resource, t.number>>

\* C20: in every reachable state no two committed Translation rows share
\* (source_entity, language, resource, number).
C20_OneRowPerSlot ==
    \A t1, t2 \in trRows : TrSlot(t1) = TrSlot(t2) => t1 = t2

\* ----------------------------------------------------------------- C21
\* The Translation rows stored now that were not stored when p's call
\* began.
MadeDurable(p) == trRows \ pre[p].tr

\* C21: when a call has finished, the added count it hands back is the
\* number of Translation rows stored now that were not stored when it
\* began; a call that rolled back hands back 0 and has stored none.
C21_AddedExact ==
    \A p \in Procs :
        Finished(p) =>
            /\ ret[p].added = Cardinality(MadeDurable(p))
            /\ outcome[p] = "rollback" => MadeDurable(p) = {}

\* A committed call on a catalog that held rows already, whose stringset
\* brings one new key twice: one row made durable, one entry added.
C21_Witness ==
    /\ Finished("p1") /\ outcome["p1"] = "commit"
    /\ pre["p1"].tr # {}
    /\ HasDuplicates("p1")
    /\ Len(call["p1"].stringset) = 2
    /\ Cardinality(MadeDurable("p1")) = 1
    /\ ret["p1"].added = 1

\* ----------------------------------------------------------------- C22
\* The text a Translation row was created with: the text in the unique key
\* its primary key was formed from.
CreatedWith(t) == t.id[1][2]

\* C22: every Translation row, committed or pending, holds the text it was
\* created with; no step changes the text of a stored row; and no call,
\* whatever its overwrite flag, counts or hands back an update.
C22_WriteOnce ==
    /\ [](/\ \A t \in AllTr : t.string = CreatedWith(t)
          /\ \A p \in Procs : strings_updated[p] = 0 /\ ret[p].updated = 0)
    /\ [][\A t \in trRows : \A u \in trRows' :
              u.id = t.id => u.string = t.string]_vars

\* A finished call with overwrite_translations true on an entry whose
\* stored text differs from the entry's: the stored text is the old one
\* and no update is reported.
C22_Witness ==
    /\ Finished("p1") /\ Unfaulted("p1")
    /\ call["p1"].overwrite
    /\ Len(call["p1"].stringset) >= 1
    /\ OtherTextBefore("p1", 1)
    /\ TrNow("p1", 1) = TrBefore("p1", 1)
    /\ \A t \in TrNow("p1", 1) : t.string = CreatedWith(t)
    /\ ret["p1"].updated = 0

=============================================================================
